---- MODULE Spec2Model ----
(***************************************************************************)
(* The EasyCrypt -emacs output parsers of python/easycrypt.py:             *)
(*   EasyCryptStdout  the stateful line classifier behind parse_bytes,     *)
(*   EasyCryptStderr  the parser of "[error-<start>-<end>]<message>".      *)
(*                                                                         *)
(* bytes and str are sequences of integers: a bytes value holds byte       *)
(* values 0..255, a str holds code points.  b"+ a" is <<43, 32, 97>>.      *)
(* Optional values are None (the empty tuple) or the value itself; an      *)
(* Optional[int] is None or Some(i).                                       *)
(***************************************************************************)
EXTENDS Integers, Sequences, FiniteSets

VARIABLES
    data,       \* parse_bytes: the argument, a bytes value
    lines,      \* parse_bytes: data.split(b"\n")
    nread,      \* parse_bytes: how many elements of lines the loop has consumed
    logger,     \* parse_bytes: the EasyCryptStdout object (its five fields)
    pc,         \* parse_bytes: "loop", "returned" or "raised" ("idle": no call)
    result,     \* parse_bytes: the EasyCryptOutput returned (None before)
    exc,        \* parse_bytes: the exception that left it ("" when none)
    stderr,     \* parse_str: the argument, a str
    err_pc,     \* parse_str: "call", "returned" or "raised" ("idle": no call)
    err_ret,    \* parse_str: the value returned (None, or an Err)
    err_exc     \* parse_str: the exception that left it ("" when none)

vars == <<data, lines, nread, logger, pc, result, exc,
          stderr, err_pc, err_ret, err_exc>>

stdoutVars == <<data, lines, nread, logger, pc, result, exc>>
stderrVars == <<stderr, err_pc, err_ret, err_exc>>

None == << >>
Some(x) == <<x>>

(***************************************************************************)
(* Sequence helpers: the bytes/str methods the parsers use.                *)
(***************************************************************************)

\* The byte 10 that _output compares the last byte with, b"\n".
LF == 10

\* s[k:] for 0 <= k.
DropFirst(s, k) == SubSeq(s, k + 1, Len(s))

\* s.startswith(p)
StartsWith(s, p) == Len(p) <= Len(s) /\ SubSeq(s, 1, Len(p)) = p

\* s.endswith(p)
EndsWith(s, p) ==
    Len(p) <= Len(s) /\ SubSeq(s, Len(s) - Len(p) + 1, Len(s)) = p

\* s.find(sep) + 1: the first position where sep occurs in s, 0 when nowhere.
Find(s, sep) ==
    LET hits == {i \in 1..(Len(s) - Len(sep) + 1) :
                    SubSeq(s, i, i + Len(sep) - 1) = sep}
    IN  IF hits = {} THEN 0 ELSE CHOOSE i \in hits : \A j \in hits : i <= j

\* s.split(sep): cut at every occurrence of sep, left to right.
RECURSIVE Split(_, _)
Split(s, sep) ==
    LET i == Find(s, sep)
    IN  IF i = 0 THEN <<s>>
        ELSE <<SubSeq(s, 1, i - 1)>> \o Split(DropFirst(s, i + Len(sep) - 1), sep)

\* s.split(sep, 1): cut at the first occurrence of sep only.
Split1(s, sep) ==
    LET i == Find(s, sep)
    IN  IF i = 0 THEN <<s>>
        ELSE <<SubSeq(s, 1, i - 1), DropFirst(s, i + Len(sep) - 1)>>

\* sep.join(parts)
RECURSIVE Join(_, _)
Join(parts, sep) ==
    IF parts = << >> THEN << >>
    ELSE IF Len(parts) = 1 THEN parts[1]
    ELSE parts[1] \o sep \o Join(Tail(parts), sep)

(***************************************************************************)
(* bytes.decode("utf8", ...): the UTF-8 decoder.                           *)
(***************************************************************************)

Cont(b, i) == i <= Len(b) /\ b[i] \in 128..191

\* The length of the well-formed UTF-8 sequence b starts with, 0 when b
\* starts with a byte that begins none (Unicode, table 3-7).
Utf8Width(b) ==
    LET h == b[1]
        second(lo, hi) == Len(b) >= 2 /\ b[2] \in lo..hi
    IN  IF h < 128 THEN 1
        ELSE IF h \in 194..223 /\ Cont(b, 2) THEN 2
        ELSE IF h = 224 /\ second(160, 191) /\ Cont(b, 3) THEN 3
        ELSE IF h \in (225..236) \cup (238..239) /\ Cont(b, 2) /\ Cont(b, 3) THEN 3
        ELSE IF h = 237 /\ second(128, 159) /\ Cont(b, 3) THEN 3
        ELSE IF h = 240 /\ second(144, 191) /\ Cont(b, 3) /\ Cont(b, 4) THEN 4
        ELSE IF h \in 241..243 /\ Cont(b, 2) /\ Cont(b, 3) /\ Cont(b, 4) THEN 4
        ELSE IF h = 244 /\ second(128, 143) /\ Cont(b, 3) /\ Cont(b, 4) THEN 4
        ELSE 0

\* The code point of the well-formed sequence of w bytes b starts with.
Utf8Point(b, w) ==
    IF w = 1 THEN b[1]
    ELSE IF w = 2 THEN (b[1] - 192) * 64 + (b[2] - 128)
    ELSE IF w = 3 THEN (b[1] - 224) * 4096 + (b[2] - 128) * 64 + (b[3] - 128)
    ELSE (b[1] - 240) * 262144 + (b[2] - 128) * 4096
            + (b[3] - 128) * 64 + (b[4] - 128)

\* Whether b.decode("utf8") meets an ill-formed sequence.
RECURSIVE IllFormed(_)
IllFormed(b) ==
    IF b = << >> THEN FALSE
    ELSE LET w == Utf8Width(b)
         IN  w = 0 \/ IllFormed(DropFirst(b, w))

\* b.decode("utf8", errors="ignore"): the text of the well-formed sequences,
\* the bytes that belong to none left out.
RECURSIVE DecodeIgnore(_)
DecodeIgnore(b) ==
    IF b = << >> THEN << >>
    ELSE LET w == Utf8Width(b)
         IN  IF w = 0 THEN DecodeIgnore(Tail(b))
             ELSE <<Utf8Point(b, w)>> \o DecodeIgnore(DropFirst(b, w))

\* What b.decode("utf8", errors=handler) raises, "" when it returns.  The
\* handler is looked up by name only when an ill-formed sequence is met;
\* "strict" raises UnicodeDecodeError, "ignore" always returns, and a name
\* no handler is registered under ("discard") raises LookupError.
DecodeRaises(b, handler) ==
    IF ~IllFormed(b) \/ handler = "ignore" THEN ""
    ELSE IF handler = "strict" THEN "UnicodeDecodeError"
    ELSE "LookupError"

(***************************************************************************)
(* int(x) of a bytes or str value (ASCII range): surrounding whitespace,   *)
(* an optional sign, decimal digits with single underscores between them.  *)
(***************************************************************************)

Whitespace == {9, 10, 11, 12, 13, 32}
Digits == 48..57

RECURSIVE LStrip(_)
LStrip(s) == IF s # << >> /\ Head(s) \in Whitespace THEN LStrip(Tail(s)) ELSE s

RECURSIVE RStrip(_)
RStrip(s) ==
    IF s # << >> /\ s[Len(s)] \in Whitespace
    THEN RStrip(SubSeq(s, 1, Len(s) - 1)) ELSE s

\* The literal without the whitespace around it and without its sign.
IntBody(s) ==
    LET t == RStrip(LStrip(s))
    IN  IF t # << >> /\ Head(t) \in {43, 45} THEN Tail(t) ELSE t

IntNegative(s) ==
    LET t == LStrip(s) IN t # << >> /\ Head(t) = 45

\* Whether int(s) raises ValueError.
int_raises(s) ==
    LET d == IntBody(s)
    IN  \/ d = << >>
        \/ \E i \in 1..Len(d) : d[i] \notin Digits \cup {95}
        \/ d[1] = 95 \/ d[Len(d)] = 95
        \/ \E i \in 1..(Len(d) - 1) : d[i] = 95 /\ d[i + 1] = 95

RECURSIVE DigitsValue(_, _)
DigitsValue(d, acc) ==
    IF d = << >> THEN acc
    ELSE IF Head(d) = 95 THEN DigitsValue(Tail(d), acc)
    ELSE DigitsValue(Tail(d), 10 * acc + (Head(d) - 48))

\* int(s), where it does not raise.
int(s) ==
    LET v == DigitsValue(IntBody(s), 0)
    IN  IF IntNegative(s) THEN 0 - v ELSE v

(***************************************************************************)
(* class EasyCryptStdout                                                   *)
(***************************************************************************)

\* EasyCryptStdout.__init__: the object as constructed.
NewLogger ==
    [cur_sev |-> None, tmp |-> << >>, list |-> << >>, out |-> << >>,
     prompt |-> None]

LogMessage(severity, message) == [severity |-> severity, message |-> message]

\* _flush without the append: the open entry is cleared and lost.
_flush_forgets(self) ==
    IF self.cur_sev # None
    THEN [self EXCEPT !.tmp = << >>, !.cur_sev = None]
    ELSE self

_flush(self) ==
    IF self.cur_sev # None
    THEN [self EXCEPT
            !.tmp = << >>,
            !.list = Append(self.list,
                            LogMessage(self.cur_sev[1], DecodeIgnore(self.tmp))),
            !.cur_sev = None]
    ELSE self

\* _append with "self.tmp = bytearray(line)" where it extends: a line of the
\* open entry's severity replaces what the entry holds.
_append_overwrites(self, severity, line) ==
    LET s == IF self.cur_sev # None /\ self.cur_sev # Some(severity)
             THEN [_flush(self) EXCEPT !.cur_sev = Some(severity),
                                       !.tmp = line]
             ELSE [self EXCEPT !.cur_sev = Some(severity), !.tmp = line]
    IN  [s EXCEPT !.tmp = s.tmp \o <<LF>>]

\* _append without the comparison of severities: any line extends the open
\* entry.
_append_merges(self, severity, line) ==
    LET s == IF self.cur_sev # None
             THEN [self EXCEPT !.tmp = self.tmp \o line]
             ELSE [self EXCEPT !.cur_sev = Some(severity), !.tmp = line]
    IN  [s EXCEPT !.tmp = s.tmp \o <<LF>>]

_append(self, severity, line) ==
    LET s == IF self.cur_sev # None
             THEN IF self.cur_sev # Some(severity)
                  THEN [_flush(self) EXCEPT !.cur_sev = Some(severity),
                                            !.tmp = line]
                  ELSE [self EXCEPT !.tmp = self.tmp \o line]
             ELSE [self EXCEPT !.cur_sev = Some(severity), !.tmp = line]
    IN  [s EXCEPT !.tmp = s.tmp \o <<LF>>]

\* _output with the terminator appended whatever the buffer holds.
_output_terminates_always(self, line) ==
    LET s == IF self.cur_sev # None THEN _flush(self) ELSE self
    IN  [s EXCEPT !.out = s.out \o line \o <<LF>>]

\* _output without the flush of the open entry.
_output_keeps_open(self, line) ==
    LET o == self.out \o line
    IN  [self EXCEPT !.out = IF Len(o) # 0 /\ o[Len(o)] # LF
                             THEN o \o <<LF>> ELSE o]

\* _output that does nothing for an empty line: no flush.
_output_skips_empty(self, line) ==
    IF line = << >> THEN self
    ELSE LET s == IF self.cur_sev # None THEN _flush(self) ELSE self
             o == s.out \o line
         IN  [s EXCEPT !.out = IF o[Len(o)] # LF THEN o \o <<LF>> ELSE o]

\* _output without the test of the last byte: a line feed is appended
\* whenever the buffer is not empty.
_output_tests_length_only(self, line) ==
    LET s == IF self.cur_sev # None THEN _flush(self) ELSE self
        o == s.out \o line
    IN  [s EXCEPT !.out = IF Len(o) # 0 THEN o \o <<LF>> ELSE o]

_output(self, line) ==
    LET s == IF self.cur_sev # None THEN _flush(self) ELSE self
        o == s.out \o line
    IN  [s EXCEPT !.out = IF Len(o) # 0 /\ o[Len(o)] # LF
                          THEN o \o <<LF>> ELSE o]

\* _start without its flush: a copy of _continuation.
_start_without_flush(self, severity, line) == _append(self, severity, line)

_start(self, severity, line) == _append(_flush(self), severity, line)

\* _continuation as a copy of _start: it flushes first.
_continuation_flushes(self, severity, line) ==
    _append(_flush(self), severity, line)

\* _continuation that is strict: a line that does not continue the open
\* entry (none is open, or one of another severity) is discarded.
_continuation_strict(self, severity, line) ==
    IF self.cur_sev = Some(severity) THEN _append(self, severity, line)
    ELSE self

_continuation(self, severity, line) == _append(self, severity, line)

\* What _prompt(line) raises, "" when it returns: each of the three splits
\* is unpacked into exactly two names, then int() and a strict decode.
_prompt_raises(line) ==
    LET a == Split(line, <<91>>)                        \* line.split(b"[")
    IN  IF Len(a) # 2 THEN "ValueError"
        ELSE LET b == Split(a[2], <<93, 62>>)           \* line.split(b"]>")
             IN  IF Len(b) # 2 THEN "ValueError"
                 ELSE LET c == Split(b[1], <<124>>)     \* line.split(b"|")
                      IN  IF Len(c) # 2 THEN "ValueError"
                          ELSE IF int_raises(c[1]) THEN "ValueError"
                          ELSE DecodeRaises(c[2], "strict")

\* _prompt that keeps the prompt it has: only the first one is stored.
_prompt_keeps_first(self, line) ==
    LET inner == Split(Split(line, <<91>>)[2], <<93, 62>>)[1]
        c == Split(inner, <<124>>)
    IN  IF self.prompt # None THEN self
        ELSE [self EXCEPT !.prompt = <<int(c[1]), DecodeIgnore(c[2])>>]

\* _prompt(line), where it does not raise: the one assignment it makes.
_prompt(self, line) ==
    LET inner == Split(Split(line, <<91>>)[2], <<93, 62>>)[1]
        c == Split(inner, <<124>>)
    IN  [self EXCEPT !.prompt = <<int(c[1]), DecodeIgnore(c[2])>>]

\* The tests of read_line by name.
Test(line, name) ==
    CASE name = "W+" -> StartsWith(line, <<91, 87, 93, 43, 32>>)
      [] name = "W|" -> StartsWith(line, <<91, 87, 93, 124, 32>>)
      [] name = "+" -> StartsWith(line, <<43, 32>>)
      [] name = "|" -> StartsWith(line, <<124, 32>>)
      [] name = "error" -> StartsWith(line, <<91, 101, 114, 114, 111, 114>>)
      [] name = "prompt" ->
            StartsWith(line, <<91>>) /\ EndsWith(line, <<93, 62>>)
      [] name = "output" -> TRUE

\* The first of the tests, taken in the given order, that line passes.
FirstOf(line, order) ==
    order[CHOOSE i \in 1..Len(order) :
            /\ Test(line, order[i])
            /\ \A j \in 1..(i - 1) : ~Test(line, order[j])]

\* read_line with the prompt test before the others.
Classify_prompt_first(line) ==
    FirstOf(line, <<"prompt", "W+", "W|", "+", "|", "error", "output">>)

\* read_line without the "[error" branch.
Classify_without_error(line) ==
    FirstOf(line, <<"W+", "W|", "+", "|", "prompt", "output">>)

\* read_line with a prompt test that asks for a "|" too: a line in brackets
\* without one is plain output.
Classify_prompt_needs_bar(line) ==
    IF FirstOf(line, <<"W+", "W|", "+", "|", "error", "prompt", "output">>)
            = "prompt" /\ Find(line, <<124>>) = 0
    THEN "output"
    ELSE FirstOf(line, <<"W+", "W|", "+", "|", "error", "prompt", "output">>)

\* The branch of read_line that line takes: the first prefix that matches.
Classify(line) ==
    IF StartsWith(line, <<91, 87, 93, 43, 32>>) THEN "W+"       \* b"[W]+ "
    ELSE IF StartsWith(line, <<91, 87, 93, 124, 32>>) THEN "W|" \* b"[W]| "
    ELSE IF StartsWith(line, <<43, 32>>) THEN "+"               \* b"+ "
    ELSE IF StartsWith(line, <<124, 32>>) THEN "|"              \* b"| "
    ELSE IF StartsWith(line, <<91, 101, 114, 114, 111, 114>>)   \* b"[error"
         THEN "error"
    ELSE IF StartsWith(line, <<91>>) /\ EndsWith(line, <<93, 62>>)
         THEN "prompt"                                          \* b"[" b"]>"
    ELSE "output"

\* What read_line(line) raises, "" when it returns.  The class defines no
\* _error: looking the attribute up raises AttributeError.
read_line_raises(line) ==
    LET k == Classify(line)
    IN  IF k = "error" THEN "AttributeError"
        ELSE IF k = "prompt" THEN _prompt_raises(line)
        ELSE ""

\* read_line(line), where it does not raise.
read_line(self, line) ==
    LET k == Classify(line)
    IN  CASE k = "W+" -> _start(self, 1, DropFirst(line, 5))
          [] k = "W|" -> _continuation(self, 1, DropFirst(line, 5))
          [] k = "+" -> _start(self, 0, DropFirst(line, 2))
          [] k = "|" -> _continuation(self, 0, DropFirst(line, 2))
          [] k = "prompt" -> _prompt(self, line)
          [] k = "output" -> _output(self, line)

EasyCryptOutput(logs, output, prompt) ==
    [logs |-> logs, output |-> output, prompt |-> prompt]

\* What finish() raises, "" when it returns.
finish_raises(self) == DecodeRaises(self.out, "discard")

\* finish with a flush as its first step: the open entry is in the result.
finish_flushes(self) ==
    EasyCryptOutput(_flush(self).list, DecodeIgnore(self.out), self.prompt)

\* finish(), where it does not raise.
finish(self) == EasyCryptOutput(self.list, DecodeIgnore(self.out), self.prompt)

(***************************************************************************)
(* parse_bytes: the buffers it is called on, and its loop.                 *)
(***************************************************************************)

\* How many lines (the segments data.split(b"\n") yields) a buffer has at most.
MaxLines == 4

\* The lines buffers are made of.  One of each kind read_line tells apart,
\* with well-formed and ill-formed UTF-8 among the contents.
Lines == {
    << >>,                              \* an empty line
    <<111, 195, 169>>,                  \* o\xc3\xa9      (o, e acute)
    <<255>>,                            \* \xff           (ill-formed)
    <<43, 32, 97>>,                     \* + a
    <<124, 32, 98>>,                    \* | b
    <<124, 32, 195, 169, 255>>,         \* | \xc3\xa9\xff (e acute, ill-formed)
    <<91, 87, 93, 43, 32, 99>>,         \* [W]+ c
    <<91, 87, 93, 124, 32, 100>>,       \* [W]| d
    <<91, 49, 124, 109, 93, 62>>,       \* [1|m]>
    <<91, 48, 50, 124, 195, 169, 93, 62>>,  \* [02|\xc3\xa9]>
    <<91, 51, 124, 255, 93, 62>>        \* [3|\xff]>      (ill-formed mode)
}

\* TEST_VECTOR_OK, the buffer of test_ok.
TEST_VECTOR_OK ==
    Join(<<
        \* output 1
        <<111, 117, 116, 112, 117, 116, 32, 49>>,
        \* [W]+ warning line 1
        <<91, 87, 93, 43, 32, 119, 97, 114, 110, 105, 110, 103, 32, 108, 105, 110, 101, 32, 49>>,
        \* [W]| warning line 2
        <<91, 87, 93, 124, 32, 119, 97, 114, 110, 105, 110, 103, 32, 108, 105, 110, 101, 32, 50>>,
        \* output 2
        <<111, 117, 116, 112, 117, 116, 32, 50>>,
        \* output 3
        <<111, 117, 116, 112, 117, 116, 32, 51>>,
        \* output 4
        <<111, 117, 116, 112, 117, 116, 32, 52>>,
        \* + info line 1
        <<43, 32, 105, 110, 102, 111, 32, 108, 105, 110, 101, 32, 49>>,
        \* | info line 2
        <<124, 32, 105, 110, 102, 111, 32, 108, 105, 110, 101, 32, 50>>,
        \* output 5
        <<111, 117, 116, 112, 117, 116, 32, 53>>,
        \* [18|check]>
        <<91, 49, 56, 124, 99, 104, 101, 99, 107, 93, 62>>,
        << >>
    >>, <<LF>>)

\* Every buffer of 1..MaxLines lines, joined by line feeds (a buffer that
\* ends with a line feed has an empty last line), and the test vector.
Buffers ==
    {Join(ls, <<LF>>) : ls \in UNION {[1..k -> Lines] : k \in 1..MaxLines}}
        \cup {TEST_VECTOR_OK}

Init ==
    /\ data \in Buffers
    /\ lines = Split(data, <<LF>>)
    /\ logger = NewLogger
    /\ nread = 0
    /\ pc = "loop"
    /\ result = None
    /\ exc = ""
    /\ stderr = << >>
    /\ err_pc = "idle"
    /\ err_ret = None
    /\ err_exc = ""

\* One turn of "for line in lines: logger.read_line(line)".
Loop ==
    /\ pc = "loop"
    /\ nread < Len(lines)
    /\ LET line == lines[nread + 1]
           e == read_line_raises(line)
       IN  IF e # ""
           THEN /\ pc' = "raised"
                /\ exc' = e
                /\ UNCHANGED <<logger, nread>>
           ELSE /\ logger' = read_line(logger, line)
                /\ nread' = nread + 1
                /\ UNCHANGED <<pc, exc>>
    /\ UNCHANGED <<data, lines, result>>
    /\ UNCHANGED stderrVars

\* "return logger.finish()", the loop over.
Return ==
    /\ pc = "loop"
    /\ nread = Len(lines)
    /\ LET e == finish_raises(logger)
       IN  IF e # ""
           THEN /\ pc' = "raised"
                /\ exc' = e
                /\ UNCHANGED result
           ELSE /\ pc' = "returned"
                /\ result' = finish(logger)
                /\ UNCHANGED exc
    /\ UNCHANGED <<data, lines, nread, logger>>
    /\ UNCHANGED stderrVars

Next == Loop \/ Return

Spec == Init /\ [][Next]_vars

(***************************************************************************)
(* parse_bytes on lines at the edges of the classification: lines that     *)
(* match more than one test of read_line or just miss one, malformed       *)
(* prompts and "[error" lines, among ordinary lines.                       *)
(***************************************************************************)

\* How many lines such a buffer has at most.
MaxEdgeLines == 3

EdgeLines == {
    <<43, 32, 97>>,                                 \* + a
    <<124, 32, 98>>,                                \* | b
    <<111>>,                                        \* o
    <<91, 49, 124, 109, 93, 62>>,                   \* [1|m]>
    <<91, 32, 55, 32, 124, 109, 93, 62>>,           \* [ 7 |m]>
    <<91, 97, 93, 62>>,                             \* [a]>       (no bar)
    <<91, 120, 124, 109, 93, 62>>,                  \* [x|m]>     (id no int)
    <<91, 124, 109, 93, 62>>,                       \* [|m]>      (empty id)
    <<91, 101, 114, 114, 111, 114, 45, 48, 45, 49, 93, 101>>,  \* [error-0-1]e
    <<91, 101, 114, 114, 111, 114, 93, 62>>,        \* [error]>
    <<91, 87, 93, 43, 32, 120, 93, 62>>,            \* [W]+ x]>
    <<91, 87, 93, 124, 32, 50, 124, 109, 93, 62>>,  \* [W]| 2|m]>
    <<91, 87, 93, 43, 120>>                         \* [W]+x      (no blank)
}

EdgeBuffers ==
    {Join(ls, <<LF>>) : ls \in UNION {[1..k -> EdgeLines] : k \in 1..MaxEdgeLines}}

InitEdge ==
    /\ data \in EdgeBuffers
    /\ lines = Split(data, <<LF>>)
    /\ logger = NewLogger
    /\ nread = 0
    /\ pc = "loop"
    /\ result = None
    /\ exc = ""
    /\ stderr = << >>
    /\ err_pc = "idle"
    /\ err_ret = None
    /\ err_exc = ""

SpecEdge == InitEdge /\ [][Next]_vars

(***************************************************************************)
(* class EasyCryptStderr                                                   *)
(***************************************************************************)

Err(msg, loc) == [msg |-> msg, loc |-> loc]

\* "[error" and "[error-"
ErrorTag == <<91, 101, 114, 114, 111, 114>>
ErrorDash == <<91, 101, 114, 114, 111, 114, 45>>

\* parse_str without its first test: every string is split.
parse_str_raises_unguarded(s) ==
    LET a == Split1(s, ErrorDash)
    IN  IF Len(a) # 2 THEN "ValueError"
        ELSE LET b == Split1(a[2], <<93>>)
             IN  IF Len(b) # 2 THEN "ValueError"
                 ELSE LET c == Split1(b[1], <<45>>)
                      IN  IF Len(c) # 2 THEN "ValueError"
                          ELSE IF int_raises(c[1]) \/ int_raises(c[2])
                               THEN "ValueError"
                          ELSE ""

\* What parse_str(s) raises, "" when it returns: each of the three splits is
\* unpacked into exactly two names, then int() of both halves.
parse_str_raises(s) ==
    IF ~StartsWith(s, ErrorTag) THEN ""
    ELSE LET a == Split1(s, ErrorDash)
         IN  IF Len(a) # 2 THEN "ValueError"
             ELSE LET b == Split1(a[2], <<93>>)             \* split("]", 1)
                  IN  IF Len(b) # 2 THEN "ValueError"
                      ELSE LET c == Split1(b[1], <<45>>)    \* split("-", 1)
                           IN  IF Len(c) # 2 THEN "ValueError"
                               ELSE IF int_raises(c[1]) \/ int_raises(c[2])
                                    THEN "ValueError"
                               ELSE ""

\* parse_str that takes the message up to the next "]": split("]") with no
\* limit, the second part kept.
parse_str_cuts_message(s) ==
    IF ~StartsWith(s, ErrorTag) THEN None
    ELSE LET b == Split(Split1(s, ErrorDash)[2], <<93>>)
             c == Split1(b[1], <<45>>)
         IN  Err(b[2], <<int(c[1]), int(c[2])>>)

\* parse_str(s), where it does not raise.
parse_str(s) ==
    IF ~StartsWith(s, ErrorTag) THEN None
    ELSE LET b == Split1(Split1(s, ErrorDash)[2], <<93>>)
             c == Split1(b[1], <<45>>)
         IN  Err(b[2], <<int(c[1]), int(c[2])>>)

(***************************************************************************)
(* parse_str: the strings it is called on.                                 *)
(***************************************************************************)

\* The largest start and end offset of the diagnostics generated.
MaxNum == 11

\* str(n) for n >= 0.
RECURSIVE Numeral(_)
Numeral(n) ==
    IF n < 10 THEN <<48 + n>> ELSE Numeral(n \div 10) \o <<48 + (n % 10)>>

\* "[error-" s "-" e "]" m
Diagnostic(s, e, m) ==
    ErrorDash \o Numeral(s) \o <<45>> \o Numeral(e) \o <<93>> \o m

\* Message texts: empty, test_error's own, and one holding "]", "-" and
\* "[error-" again.
Messages == {
    << >>,
    <<112, 97, 114, 115, 101, 32, 101, 114, 114, 111, 114>>,      \* parse error
    <<97, 93, 98, 45, 99>>,                      \* a]b-c
    <<93, 45, 91, 101, 114, 114, 111, 114, 45, 51, 45, 52, 93, 120>>
        \* ]-[error-3-4]x
}

\* The argument of test_error, "[error-0-27]parse error".
TEST_ERROR == <<91, 101, 114, 114, 111, 114, 45, 48, 45, 50, 55, 93, 112, 97, 114, 115, 101, 32, 101, 114, 114, 111, 114>>

\* Characters put in the place of one of a string: x - ] [ 1 and a space.
Substitutes == {120, 45, 93, 91, 49, 32}

\* s cut short, with one character left out, or with one character replaced.
Mangled(s) ==
    {SubSeq(s, 1, k) : k \in 0..Len(s)}
        \cup {SubSeq(s, 1, k - 1) \o DropFirst(s, k) : k \in 1..Len(s)}
        \cup {[s EXCEPT ![k] = c] : k \in 1..Len(s), c \in Substitutes}

\* The diagnostics, test_error's string mangled, and that string after an "x"
\* and after "[error" and "[errorx" (the tag with no dash, a diagnostic later).
ErrInputs ==
    {Diagnostic(s, e, m) : s \in 0..MaxNum, e \in 0..MaxNum, m \in Messages}
        \cup Mangled(TEST_ERROR)
        \cup {<<120>> \o TEST_ERROR}
        \cup {ErrorTag \o TEST_ERROR, ErrorTag \o <<120>> \o TEST_ERROR}

InitErr ==
    /\ stderr \in ErrInputs
    /\ err_pc = "call"
    /\ err_ret = None
    /\ err_exc = ""
    /\ data = << >>
    /\ lines = << >>
    /\ logger = NewLogger
    /\ nread = 0
    /\ pc = "idle"
    /\ result = None
    /\ exc = ""

\* The call EasyCryptStderr.parse_str(stderr).
ParseStr ==
    /\ err_pc = "call"
    /\ LET e == parse_str_raises(stderr)
       IN  IF e # ""
           THEN /\ err_pc' = "raised"
                /\ err_exc' = e
                /\ UNCHANGED err_ret
           ELSE /\ err_pc' = "returned"
                /\ err_ret' = parse_str(stderr)
                /\ UNCHANGED err_exc
    /\ UNCHANGED stderr
    /\ UNCHANGED stdoutVars

NextErr == ParseStr

SpecErr == InitErr /\ [][NextErr]_vars

(***************************************************************************)
(* The vocabulary of the properties.                                       *)
(***************************************************************************)

IsStart(line) == Classify(line) \in {"W+", "+"}
IsContinuation(line) == Classify(line) \in {"W|", "|"}
IsLog(line) == Classify(line) \in {"W+", "+", "W|", "|"}
IsPlain(line) == Classify(line) = "output"
IsPromptShaped(line) == Classify(line) = "prompt"

\* The severity a log line carries: 1 for [W], 0 otherwise.
Severity(line) == IF Classify(line) \in {"W+", "W|"} THEN 1 ELSE 0

\* A log line without its prefix.
Content(line) ==
    IF Classify(line) \in {"W+", "W|"} THEN DropFirst(line, 5)
    ELSE DropFirst(line, 2)

\* str.encode("utf8") of a text of code points below 0x110000.
RECURSIVE Utf8Encode(_)
Utf8Encode(t) ==
    IF t = << >> THEN << >>
    ELSE LET c == Head(t)
             first ==
                IF c < 128 THEN <<c>>
                ELSE IF c < 2048 THEN <<192 + (c \div 64), 128 + (c % 64)>>
                ELSE IF c < 65536
                     THEN <<224 + (c \div 4096), 128 + ((c \div 64) % 64),
                            128 + (c % 64)>>
                ELSE <<240 + (c \div 262144), 128 + ((c \div 4096) % 64),
                       128 + ((c \div 64) % 64), 128 + (c % 64)>>
         IN  first \o Utf8Encode(Tail(t))

\* The concatenation of the elements of a sequence of sequences.
RECURSIVE Concat(_)
Concat(ss) == IF ss = << >> THEN << >> ELSE Head(ss) \o Concat(Tail(ss))

\* The positions 1..n of the lines that satisfy test, in ascending order.
Positions(n, test(_)) ==
    LET at(k) == test(lines[k]) IN SelectSeq([k \in 1..n |-> k], at)

\* The lines at the positions ks, each followed by a line feed, as one bytes
\* value; with(_) is what is kept of a line.
Terminated(ks, with(_)) == Concat([i \in 1..Len(ks) |-> with(lines[ks[i]]) \o <<LF>>])

Itself(line) == line

\* A line of the shape [<int>|<word>]>: decimal digits, "|", and a word with
\* no bracket, bar, angle or blank in it.
PromptBar(line) == Find(line, <<124>>)
PromptId(line) == SubSeq(line, 2, PromptBar(line) - 1)
PromptMode(line) == SubSeq(line, PromptBar(line) + 1, Len(line) - 2)
PromptSyntax(line) ==
    /\ StartsWith(line, <<91>>) /\ EndsWith(line, <<93, 62>>)
    /\ PromptBar(line) > 2 /\ PromptBar(line) < Len(line) - 2
    /\ \A i \in 1..Len(PromptId(line)) : PromptId(line)[i] \in Digits
    /\ \A i \in 1..Len(PromptMode(line)) :
            PromptMode(line)[i] \notin {91, 93, 124, 62, 32}
WellFormedPrompt(line) == PromptSyntax(line) /\ ~IllFormed(PromptMode(line))

\* The value of a string of decimal digits.
RECURSIVE Decimal(_)
Decimal(ds) ==
    IF ds = << >> THEN 0
    ELSE 10 * Decimal(SubSeq(ds, 1, Len(ds) - 1)) + (ds[Len(ds)] - 48)

\* The prompt the last prompt line among the first n lines states, None when
\* there is none.
LastPrompt(n) ==
    LET ps == Positions(n, IsPromptShaped)
    IN  IF ps = << >> THEN None
        ELSE LET line == lines[ps[Len(ps)]]
             IN  <<Decimal(PromptId(line)), PromptMode(line)>>

\* parse_bytes is over: it returned or an exception left it.
Over == pc \in {"returned", "raised"}

(***************************************************************************)
(* C1: the canonical buffer shape.                                         *)
(***************************************************************************)

\* The last line of the run that starts at line k: the continuation lines
\* that follow the start line at once.
RECURSIVE RunEnd(_)
RunEnd(k) ==
    IF k < Len(lines) /\ IsContinuation(lines[k + 1]) THEN RunEnd(k + 1) ELSE k

\* The nearest line before k that is no prompt line, 0 when there is none.
RECURSIVE Before(_)
Before(k) ==
    IF k = 1 THEN 0
    ELSE IF IsPromptShaped(lines[k - 1]) THEN Before(k - 1) ELSE k - 1

\* The buffer is text that ends with a line feed and is made of runs (a start
\* line, then continuation lines of its severity, no prompt line inside),
\* non-empty plain lines with at least one between two runs, and well-formed
\* prompt lines.
Canonical ==
    LET n == Len(lines) - 1
    IN  /\ ~IllFormed(data)
        /\ lines[Len(lines)] = << >>
        /\ \A k \in 1..n :
            LET line == lines[k]
            IN  \/ IsPlain(line) /\ line # << >>
                \/ WellFormedPrompt(line)
                \/ IsStart(line) /\ (Before(k) = 0 \/ IsPlain(lines[Before(k)]))
                \/ /\ IsContinuation(line)
                   /\ k > 1 /\ IsLog(lines[k - 1])
                   /\ Severity(lines[k - 1]) = Severity(line)

\* The runs of the buffer, by the position of their start line.
Runs == Positions(Len(lines), IsStart)

\* Position k..RunEnd(k) as a sequence.
RunLines(k) == [i \in 1..(RunEnd(k) - k + 1) |-> k + i - 1]

\* C1: on a canonical buffer parse_bytes returns; logs holds one LogMessage
\* per run, in input order, with the run's severity and, as text, the content
\* of each line of the run followed by a line feed; output is the plain lines
\* in input order, each followed by one line feed; prompt is the id and mode
\* of the last prompt line.
C1_Canonical ==
    (Over /\ Canonical) =>
        /\ pc = "returned"
        /\ Len(result.logs) = Len(Runs)
        /\ \A r \in 1..Len(Runs) :
            /\ result.logs[r].severity = Severity(lines[Runs[r]])
            /\ Utf8Encode(result.logs[r].message)
                    = Terminated(RunLines(Runs[r]), Content)
        /\ Utf8Encode(result.output)
                = Terminated(Positions(Len(lines) - 1, IsPlain), Itself)
        /\ LastPrompt(Len(lines)) # None =>
            /\ result.prompt # None
            /\ result.prompt[1] = LastPrompt(Len(lines))[1]
            /\ Utf8Encode(result.prompt[2]) = LastPrompt(Len(lines))[2]

\* A canonical buffer with two runs, plain lines and a prompt has been parsed.
C1_Witness ==
    /\ pc = "returned" /\ Canonical
    /\ Len(Runs) >= 2 /\ Len(result.logs) >= 2
    /\ \E r \in 1..Len(Runs) : RunEnd(Runs[r]) > Runs[r]
    /\ result.output # << >>
    /\ result.prompt # None

(***************************************************************************)
(* C2: buffers of plain lines.                                             *)
(***************************************************************************)

\* The buffer is text and every line of it is a plain line.
PlainOnly ==
    /\ ~IllFormed(data)
    /\ \A k \in 1..Len(lines) : IsPlain(lines[k])

NonEmpty(line) == line # << >>

\* The lines of the buffer: the segments between line feeds, the empty one
\* after a final line feed not being a line.
InputLines ==
    IF lines[Len(lines)] = << >>
    THEN [k \in 1..(Len(lines) - 1) |-> k] ELSE [k \in 1..Len(lines) |-> k]

\* C2 as stated: on a buffer of plain lines parse_bytes returns no logs and,
\* as output, every line of the input, in order, each followed by exactly one
\* line feed.
C2_EveryLine ==
    (Over /\ PlainOnly) =>
        /\ pc = "returned"
        /\ result.logs = << >>
        /\ Utf8Encode(result.output) = Terminated(InputLines, Itself)

\* C2, amended: on a buffer of plain lines parse_bytes returns no logs and,
\* as output, every non-empty line of the input, in order, each followed by
\* exactly one line feed; blank lines are dropped.
C2_NonEmptyLines ==
    (Over /\ PlainOnly) =>
        /\ pc = "returned"
        /\ result.logs = << >>
        /\ Utf8Encode(result.output)
                = Terminated(Positions(Len(lines), NonEmpty), Itself)

\* A buffer of plain lines with a blank line inside and no final line feed
\* has been parsed.
C2_Witness ==
    /\ pc = "returned" /\ PlainOnly
    /\ Len(lines) >= 3
    /\ lines[1] # << >> /\ lines[2] = << >> /\ lines[Len(lines)] # << >>
    /\ result.output # << >>

(***************************************************************************)
(* Entries: the completed LogMessages in order, then the open entry if      *)
(* there is one.  Every log line puts exactly one line feed into its entry, *)
(* and decoding neither drops nor adds one, so the line feeds of an entry   *)
(* count the lines in it and tell which lines of the input they are.        *)
(***************************************************************************)

LineFeeds(t) == Cardinality({i \in 1..Len(t) : t[i] = LF})

\* The positions of the log lines read so far.
LogPositions == Positions(nread, IsLog)

IsOpen == logger.cur_sev # None

NumEntries == Len(logger.list) + (IF IsOpen THEN 1 ELSE 0)

EntryCount(j) ==
    IF j <= Len(logger.list) THEN LineFeeds(logger.list[j].message)
    ELSE LineFeeds(logger.tmp)

EntrySeverity(j) ==
    IF j <= Len(logger.list) THEN logger.list[j].severity
    ELSE logger.cur_sev[1]

\* The positions of the lines held by entry j and by the entries after it,
\* entry by entry; pos are the positions of the log lines not held by the
\* entries before j.
RECURSIVE SpansFrom(_, _)
SpansFrom(j, pos) ==
    IF j > NumEntries THEN << >>
    ELSE LET c == IF EntryCount(j) <= Len(pos) THEN EntryCount(j) ELSE Len(pos)
         IN  <<SubSeq(pos, 1, c)>> \o SpansFrom(j + 1, DropFirst(pos, c))

\* EntrySpans[j]: the positions of the lines held by entry j.
EntrySpans == SpansFrom(1, LogPositions)

\* The entries hold the log lines read so far, in order: each entry has the
\* severity of its lines and is made of their contents, each followed by a
\* line feed (decoded, once the entry is complete).
EntriesHoldLines ==
    LET spans == EntrySpans
    IN  /\ Len(Concat(spans)) = Len(LogPositions)
        /\ \A j \in 1..NumEntries :
            /\ EntryCount(j) >= 1
            /\ Len(spans[j]) = EntryCount(j)
            /\ \A i \in 1..Len(spans[j]) :
                    Severity(lines[spans[j][i]]) = EntrySeverity(j)
            /\ IF j <= Len(logger.list)
               THEN logger.list[j].message
                        = DecodeIgnore(Terminated(spans[j], Content))
               ELSE logger.tmp = Terminated(spans[j], Content)

\* The entry that holds the log line at position k, spans being EntrySpans.
EntryOf(spans, k) ==
    CHOOSE j \in 1..Len(spans) : \E i \in 1..Len(spans[j]) : spans[j][i] = k

\* Lines k and k + 1 have been read and both are log lines.
AdjacentLogLines(k) ==
    k + 1 <= nread /\ IsLog(lines[k]) /\ IsLog(lines[k + 1])

(***************************************************************************)
(* C3: two consecutive log lines of one severity.                          *)
(***************************************************************************)

\* C3 as stated: two consecutive log lines of the same severity, whichever
\* form each has, are in one entry, whose text holds both contents, each
\* followed by a line feed.
C3_AnyForm ==
    /\ EntriesHoldLines
    /\ LET spans == EntrySpans
       IN  \A k \in 1..Len(lines) :
            (AdjacentLogLines(k) /\ Severity(lines[k]) = Severity(lines[k + 1]))
                => EntryOf(spans, k) = EntryOf(spans, k + 1)

\* C3, amended: two consecutive log lines of the same severity of which the
\* second is a continuation line are in one entry, whose text holds both
\* contents, each followed by a line feed.
C3_ContinuationMerges ==
    /\ EntriesHoldLines
    /\ LET spans == EntrySpans
       IN  \A k \in 1..Len(lines) :
            (/\ AdjacentLogLines(k)
             /\ Severity(lines[k]) = Severity(lines[k + 1])
             /\ IsContinuation(lines[k + 1]))
                => EntryOf(spans, k) = EntryOf(spans, k + 1)

\* parse_bytes returned exactly one LogMessage, made of a log line and a
\* continuation line of its severity.
C3_Witness ==
    /\ pc = "returned"
    /\ Len(result.logs) = 1
    /\ \E k \in 1..Len(lines) :
        /\ AdjacentLogLines(k) /\ IsContinuation(lines[k + 1])
        /\ Severity(lines[k]) = Severity(lines[k + 1])
        /\ result.logs[1].message
                = DecodeIgnore(Content(lines[k]) \o <<LF>>
                                \o Content(lines[k + 1]) \o <<LF>>)

(***************************************************************************)
(* C4: a severity switch.                                                  *)
(***************************************************************************)

\* C4: two adjacent log lines of different severities are in two entries, the
\* second right after the first; once both entries are complete they are two
\* LogMessages of logs, in the order of the lines, each with the severity of
\* its line.
C4_SeveritySwitch ==
    /\ EntriesHoldLines
    /\ LET spans == EntrySpans
       IN  \A k \in 1..Len(lines) :
            (AdjacentLogLines(k) /\ Severity(lines[k]) # Severity(lines[k + 1]))
                => LET first == EntryOf(spans, k)
                       second == EntryOf(spans, k + 1)
                   IN  /\ second = first + 1
                       /\ second <= Len(logger.list) =>
                            /\ logger.list[first].severity = Severity(lines[k])
                            /\ logger.list[second].severity
                                    = Severity(lines[k + 1])

\* parse_bytes returned two LogMessages for a warning line followed at once by
\* an info continuation line.
C4_Witness ==
    /\ pc = "returned"
    /\ Len(result.logs) = 2
    /\ Classify(lines[1]) = "W+" /\ Classify(lines[2]) = "|"
    /\ result.logs[1].severity = 1 /\ result.logs[2].severity = 0

(***************************************************************************)
(* C5 and C10: what may lie between the lines of one entry.                *)
(***************************************************************************)

\* Line k lies between the first and the last of the lines at the positions
\* span.
Inside(k, span) == span[1] < k /\ k < span[Len(span)]

\* C5: no plain output line lies between two lines of one entry: what was
\* read before an output line and what was read after it are in different
\* LogMessages.
C5_OutputSeparates ==
    /\ EntriesHoldLines
    /\ LET spans == EntrySpans
       IN  \A j \in 1..NumEntries : \A k \in 1..nread :
                IsPlain(lines[k]) => ~Inside(k, spans[j])

\* parse_bytes returned two LogMessages of one severity for a log line, an
\* output line and a continuation line of the same severity.
C5_Witness ==
    /\ pc = "returned"
    /\ Len(lines) = 4
    /\ IsLog(lines[1]) /\ IsPlain(lines[2]) /\ IsContinuation(lines[3])
    /\ Severity(lines[1]) = Severity(lines[3])
    /\ Len(result.logs) = 2
    /\ result.logs[1].severity = result.logs[2].severity

\* C10: at most one entry is open, and every completed LogMessage is a
\* contiguous run of input lines: no plain output line and no prompt line lies
\* between two lines of one LogMessage.
C10_ContiguousRuns ==
    /\ EntriesHoldLines
    /\ NumEntries <= Len(logger.list) + 1
    /\ LET spans == EntrySpans
       IN  \A j \in 1..Len(logger.list) : \A k \in 1..nread :
                (IsPlain(lines[k]) \/ IsPromptShaped(lines[k]))
                    => ~Inside(k, spans[j])

(***************************************************************************)
(* C6: the prompt is the last one.                                         *)
(***************************************************************************)

\* p is the prompt the last prompt line among the first n lines states.
PromptIs(p, n) ==
    LET last == LastPrompt(n)
    IN  IF last = None THEN p = None
        ELSE /\ p # None
             /\ p[1] = last[1]
             /\ Utf8Encode(p[2]) = last[2]

\* C6: while the prompt lines read are well-formed, the stored prompt is the
\* id and mode of the last prompt line read, None when none was read; the
\* SessionState returned carries the one of the last prompt line of the buffer.
C6_LastPrompt ==
    (\A k \in 1..nread : IsPromptShaped(lines[k]) => WellFormedPrompt(lines[k]))
        => /\ PromptIs(logger.prompt, nread)
           /\ pc = "returned" => PromptIs(result.prompt, Len(lines))

\* parse_bytes returned the second of two different prompts.
C6_Witness ==
    /\ pc = "returned"
    /\ Len(Positions(Len(lines), IsPromptShaped)) >= 2
    /\ lines[1] = <<91, 49, 124, 109, 93, 62>>                  \* [1|m]>
    /\ lines[2] = <<91, 48, 50, 124, 195, 169, 93, 62>>         \* [02|e acute]>
    /\ result.prompt = <<2, <<233>>>>

(***************************************************************************)
(* C7 and C8: parse_str.                                                   *)
(***************************************************************************)

\* C7: parse_str of "[error-" s "-" e "]" m returns an Err whose msg is m and
\* whose loc is (s, e), for the offsets 0..MaxNum and every message text,
\* among them texts with further "]" and "-".
C7_Diagnostic ==
    err_pc # "call" =>
        /\ \A s \in 0..MaxNum : \A e \in 0..MaxNum : \A m \in Messages :
            stderr = Diagnostic(s, e, m) =>
                err_pc = "returned" /\ err_ret = Err(m, <<s, e>>)
        /\ stderr = TEST_ERROR =>
                err_pc = "returned"
                    /\ err_ret = Err(<<112, 97, 114, 115, 101, 32, 101, 114, 114, 111, 114>>,
                                     <<0, 27>>)

\* parse_str returned a message with "]" and "-" in it and two-digit offsets.
C7_Witness ==
    /\ err_pc = "returned"
    /\ stderr = Diagnostic(10, 11, <<97, 93, 98, 45, 99>>)
    /\ err_ret = Err(<<97, 93, 98, 45, 99>>, <<10, 11>>)

\* The string does not start with "[error".
NotAnError ==
    Len(stderr) < 6 \/ \E i \in 1..6 : stderr[i] # ErrorTag[i]

\* C8: parse_str of a string that does not start with "[error", the empty
\* string included, returns None and raises nothing.
C8_NotAnError ==
    (err_pc # "call" /\ NotAnError) => (err_pc = "returned" /\ err_ret = None)

\* parse_str returned None for a string that holds a whole diagnostic after
\* its first character.
C8_Witness ==
    /\ err_pc = "returned" /\ err_ret = None
    /\ stderr = <<120>> \o TEST_ERROR

(***************************************************************************)
(* C9: bytes that are not valid text.                                      *)
(***************************************************************************)

\* Every line is a log line, a plain line or a prompt line [<int>|<mode>]>,
\* whatever the bytes of the contents, the plain lines and the modes.
TextOrNot ==
    \A k \in 1..Len(lines) :
        \/ IsLog(lines[k])
        \/ IsPlain(lines[k])
        \/ PromptSyntax(lines[k])

\* C9: ill-formed bytes never make the parse fail: parse_bytes returns a
\* SessionState whose output and prompt mode are the bytes read without the
\* ill-formed ones.
C9_NeverFails ==
    (Over /\ TextOrNot) =>
        /\ pc = "returned"
        /\ result.output
                = DecodeIgnore(Terminated(Positions(Len(lines), NonEmpty), Itself))

(***************************************************************************)
(* C11: malformed diagnostics.                                             *)
(***************************************************************************)

\* s is no integer under any reading: it has no digit, or a character that
\* is no digit, sign, underscore or blank.
NotAnInteger(s) ==
    \/ \A i \in 1..Len(s) : s[i] \notin Digits
    \/ \E i \in 1..Len(s) : s[i] \notin Digits \cup {43, 45, 95} \cup Whitespace

\* What follows "[error" and its seventh character.
AfterTag(s) == DropFirst(s, 7)

\* The text between "[error-" and the first "]" after it.
Location(s) == SubSeq(AfterTag(s), 1, Find(AfterTag(s), <<93>>) - 1)

\* s starts with "[error" and is malformed: no "-" right after "[error", no
\* "]", no "-" between the two numbers, or a start or end that is no integer.
MalformedDiagnostic(s) ==
    /\ StartsWith(s, ErrorTag)
    /\ \/ Len(s) < 7 \/ s[7] # 45
       \/ Find(AfterTag(s), <<93>>) = 0
       \/ LET loc == Location(s)
              dash == Find(loc, <<45>>)
          IN  \/ dash = 0
              \/ NotAnInteger(SubSeq(loc, 1, dash - 1))
              \/ NotAnInteger(DropFirst(loc, dash))

\* C11: parse_str of a malformed string that starts with "[error" fails: an
\* exception reaches the caller, and it returns neither an Err nor None.
C11_MalformedFails ==
    (err_pc # "call" /\ MalformedDiagnostic(stderr)) => err_pc = "raised"

(***************************************************************************)
(* C12: malformed prompt lines.                                            *)
(***************************************************************************)

\* The step about to be taken reads a line; TheLine is that line.
Reading == pc = "loop" /\ nread < Len(lines)
TheLine == lines[nread + 1]

\* A line in the prompt shape, "[" ... "]>", that is no log line.
PromptShape(line) ==
    /\ StartsWith(line, <<91>>) /\ EndsWith(line, <<93, 62>>)
    /\ ~StartsWith(line, <<91, 87, 93, 43, 32>>)
    /\ ~StartsWith(line, <<91, 87, 93, 124, 32>>)

\* What a line in the prompt shape has between its "[" and its "]>".
Inner(line) == SubSeq(line, 2, Len(line) - 2)

\* A line in the prompt shape without a "|" inside or with something before
\* the "|" that is no integer.
MalformedPrompt(line) ==
    /\ PromptShape(line)
    /\ \/ Find(Inner(line), <<124>>) = 0
       \/ NotAnInteger(SubSeq(Inner(line), 1, Find(Inner(line), <<124>>) - 1))

\* C12: reading a malformed prompt line raises an exception that leaves
\* parse_bytes, which returns nothing; the line is not dropped (the loop does
\* not go on), it is not appended to the output buffer and the stored prompt
\* stays what it was, as does all the rest of the logger.
C12_MalformedPromptReported ==
    [][(Reading /\ MalformedPrompt(TheLine))
            => /\ pc' = "raised" /\ exc' # "" /\ result' = None
               /\ nread' = nread
               /\ logger' = logger]_vars

\* A prompt line without an integer was read after an output line and a
\* prompt: parse_bytes raised, and the logger holds what the two lines left.
C12_Witness ==
    /\ pc = "raised" /\ exc = "ValueError" /\ nread = 2
    /\ lines[1] = <<111>>                               \* o
    /\ lines[2] = <<91, 49, 124, 109, 93, 62>>          \* [1|m]>
    /\ lines[3] = <<91, 120, 124, 109, 93, 62>>         \* [x|m]>
    /\ logger.out = <<111, LF>>
    /\ logger.prompt = <<1, <<109>>>>

(***************************************************************************)
(* C13: "[error" lines.                                                    *)
(***************************************************************************)

\* C13: reading a line that begins with "[error" changes nothing of the
\* logger (logs, output buffer, open entry, prompt) and does not pass in
\* silence: the call of the handler raises, and the exception leaves
\* parse_bytes.
C13_ErrorLineKeepsState ==
    [][(Reading /\ StartsWith(TheLine, ErrorTag))
            => /\ logger' = logger
               /\ pc' = "raised" /\ exc' = "AttributeError"
               /\ result' = None]_vars

\* An "[error" line was read with output in the buffer and an entry open:
\* both are as the two lines before it left them.
C13_Witness ==
    /\ pc = "raised" /\ exc = "AttributeError" /\ nread = 2
    /\ lines[1] = <<111>>                               \* o
    /\ lines[2] = <<43, 32, 97>>                        \* + a
    /\ StartsWith(lines[3], ErrorTag)
    /\ logger.out = <<111, LF>>
    /\ logger.cur_sev = Some(0) /\ logger.tmp = <<97, LF>>
    /\ logger.list = << >> /\ logger.prompt = None

(***************************************************************************)
(* C14: start lines.                                                       *)
(***************************************************************************)

\* The logger with its open entry, if it has one, completed: a LogMessage of
\* the entry's severity and text is added to logs.
Completed(self) ==
    IF self.cur_sev = None THEN self.list
    ELSE Append(self.list, LogMessage(self.cur_sev[1], DecodeIgnore(self.tmp)))

\* Every line of the buffer but the last, which is empty, is a start line of
\* severity sev.
OnlyStarts(sev) ==
    /\ Len(lines) >= 2 /\ lines[Len(lines)] = << >>
    /\ \A k \in 1..(Len(lines) - 1) :
            IsStart(lines[k]) /\ Severity(lines[k]) = sev

\* C14: reading a start line completes the entry that is open, whatever its
\* severity, and opens an entry of the line's severity whose buffer is the
\* line's content and a line feed, the output buffer and the prompt staying
\* as they are; and a buffer of n start lines of one severity gives n
\* LogMessages, one per line.
C14_StartBeginsEntry ==
    /\ [][(Reading /\ IsStart(TheLine))
            => /\ logger'.list = Completed(logger)
               /\ logger'.cur_sev = Some(Severity(TheLine))
               /\ logger'.tmp = Content(TheLine) \o <<LF>>
               /\ logger'.out = logger.out
               /\ logger'.prompt = logger.prompt]_vars
    /\ [](\A sev \in {0, 1} :
            (pc = "returned" /\ OnlyStarts(sev))
                => /\ Len(result.logs) = Len(lines) - 1
                   /\ \A k \in 1..(Len(lines) - 1) :
                        result.logs[k] = LogMessage(sev,
                            DecodeIgnore(Content(lines[k]) \o <<LF>>)))

\* Three start lines of one severity and one content gave three LogMessages.
C14_Witness ==
    /\ pc = "returned" /\ OnlyStarts(0) /\ Len(lines) = 4
    /\ lines[1] = lines[2] /\ lines[2] = lines[3]
    /\ Len(result.logs) = 3
    /\ result.logs[1] = result.logs[3]

(***************************************************************************)
(* C15: continuation lines.                                                *)
(***************************************************************************)

\* C15: reading a continuation line never fails and stores the line: with no
\* entry open it opens one of the line's severity; with an entry of another
\* severity open it completes that entry and opens a new one; with an entry
\* of its severity open it extends it.  Afterwards the open entry has the
\* line's severity and its buffer ends with the line's content and a line
\* feed; the output buffer and the prompt stay as they are.
C15_ContinuationLenient ==
    [][(Reading /\ IsContinuation(TheLine))
        => LET sev == Severity(TheLine)
               stored == Content(TheLine) \o <<LF>>
           IN  /\ pc' = "loop" /\ nread' = nread + 1
               /\ logger'.cur_sev = Some(sev)
               /\ EndsWith(logger'.tmp, stored)
               /\ logger.cur_sev = None
                    => logger'.list = logger.list /\ logger'.tmp = stored
               /\ logger.cur_sev \notin {None, Some(sev)}
                    => /\ logger'.list = Completed(logger)
                       /\ logger'.tmp = stored
               /\ logger.cur_sev = Some(sev)
                    => /\ logger'.list = logger.list
                       /\ logger'.tmp = logger.tmp \o stored
               /\ logger'.out = logger.out
               /\ logger'.prompt = logger.prompt]_vars

\* Three continuation lines were read, one in each case: the first with no
\* entry open, the second of another severity, the third of the same.
C15_Witness ==
    /\ nread = 3
    /\ lines[1] = <<124, 32, 98>>                       \* | b
    /\ lines[2] = <<91, 87, 93, 124, 32, 100>>          \* [W]| d
    /\ lines[3] = lines[2]
    /\ logger.list = <<LogMessage(0, <<98, LF>>)>>
    /\ logger.cur_sev = Some(1)
    /\ logger.tmp = <<100, LF, 100, LF>>

(***************************************************************************)
(* C16: finish with an entry open.                                         *)
(***************************************************************************)

\* The texts of the LogMessages of logs, one after the other.
Texts(logs) == Concat([j \in 1..Len(logs) |-> logs[j].message])

\* C16: when parse_bytes returns with an entry open, the logs of the result
\* are the LogMessages completed before, one less than there are entries:
\* their texts are the contents of the log lines read before the lines of the
\* open entry, and the lines of the open entry are in none of them.
C16_FinishDoesNotFlush ==
    (pc = "returned" /\ IsOpen) =>
        LET kept == Len(LogPositions) - LineFeeds(logger.tmp)
        IN  /\ result.logs = logger.list
            /\ Len(result.logs) = NumEntries - 1
            /\ LineFeeds(logger.tmp) >= 1
            /\ Texts(result.logs) = DecodeIgnore(
                    Terminated(SubSeq(LogPositions, 1, kept), Content))

\* parse_bytes returned one LogMessage for a buffer of a log line, an output
\* line and a last log line with no line feed after it: the last is lost.
C16_Witness ==
    /\ pc = "returned" /\ IsOpen
    /\ lines = << <<43, 32, 97>>, <<111, 195, 169>>, <<124, 32, 98>> >>
    /\ result.logs = <<LogMessage(0, <<97, LF>>)>>
    /\ logger.tmp = <<98, LF>>

(***************************************************************************)
(* C17: the order of the tests of read_line.                               *)
(***************************************************************************)

\* The step taken is the one action "start": the open entry is completed and
\* an entry of severity sev opened with content and a line feed.
Started(sev, content) ==
    /\ pc' = "loop" /\ nread' = nread + 1
    /\ logger' = [logger EXCEPT !.list = Completed(logger),
                                !.cur_sev = Some(sev),
                                !.tmp = content \o <<LF>>]

\* The step taken is the one action "continuation": content and a line feed
\* are put into the entry of severity sev that is open, or into a new one.
Continued(sev, content) ==
    /\ pc' = "loop" /\ nread' = nread + 1
    /\ logger' =
        IF logger.cur_sev = Some(sev)
        THEN [logger EXCEPT !.tmp = logger.tmp \o content \o <<LF>>]
        ELSE [logger EXCEPT !.list = Completed(logger),
                            !.cur_sev = Some(sev),
                            !.tmp = content \o <<LF>>]

\* The step taken is the hand-off to the error handler: nothing is stored.
HandedOff == pc' = "raised" /\ logger' = logger

\* The step taken is the one action "prompt": a prompt is stored and nothing
\* else changes, or the line is refused and nothing changes at all.
PromptTaken ==
    \/ pc' = "raised" /\ logger' = logger
    \/ /\ pc' = "loop" /\ nread' = nread + 1
       /\ logger'.prompt # None
       /\ logger' = [logger EXCEPT !.prompt = logger'.prompt]

\* The step taken is the one action "output": the open entry is completed
\* and the line, with a line feed if it is not empty, is put into the output
\* buffer (a line of the buffers read holds no line feed).
OutputTaken(line) ==
    /\ pc' = "loop" /\ nread' = nread + 1
    /\ logger' = [logger EXCEPT
            !.list = Completed(logger),
            !.cur_sev = None,
            !.tmp = << >>,
            !.out = IF line = << >> THEN logger.out
                    ELSE logger.out \o line \o <<LF>>]

\* C17: read_line takes the first of the tests "[W]+ ", "[W]| ", "+ ", "| ",
\* "[error", prompt shape, plain output that the line passes and runs the one
\* action of that test, on the line without exactly the prefix matched.
C17_FirstMatchingRule ==
    [][Reading =>
        LET line == TheLine
        IN  IF StartsWith(line, <<91, 87, 93, 43, 32>>)             \* [W]+
            THEN Started(1, DropFirst(line, 5))
            ELSE IF StartsWith(line, <<91, 87, 93, 124, 32>>)       \* [W]|
            THEN Continued(1, DropFirst(line, 5))
            ELSE IF StartsWith(line, <<43, 32>>)                    \* +
            THEN Started(0, DropFirst(line, 2))
            ELSE IF StartsWith(line, <<124, 32>>)                   \* |
            THEN Continued(0, DropFirst(line, 2))
            ELSE IF StartsWith(line, ErrorTag)
            THEN HandedOff
            ELSE IF StartsWith(line, <<91>>) /\ EndsWith(line, <<93, 62>>)
            THEN PromptTaken
            ELSE OutputTaken(line)]_vars

\* "[W]+ x]>" was read as a warning start with content "x]>", and "[error]>"
\* after it was not read as a prompt.
C17_Witness ==
    /\ lines[1] = <<91, 87, 93, 43, 32, 120, 93, 62>>           \* [W]+ x]>
    /\ Len(lines) >= 2
    /\ lines[2] = <<91, 101, 114, 114, 111, 114, 93, 62>>       \* [error]>
    /\ nread = 1 /\ pc = "raised" /\ exc = "AttributeError"
    /\ logger.cur_sev = Some(1)
    /\ logger.tmp = <<120, 93, 62, LF>>
    /\ logger.prompt = None

(***************************************************************************)
(* C18: no log content is lost before finish.                              *)
(***************************************************************************)

\* The pending buffer of the open entry as text, empty when none is open.
Pending == IF IsOpen THEN DecodeIgnore(logger.tmp) ELSE << >>

\* The contents of the log lines read so far, in input order, each followed
\* by a line feed.
LogContents == Terminated(LogPositions, Content)

\* C18: after the lines read so far, the texts of the completed LogMessages
\* in order, then the pending buffer of the open entry, are together the
\* contents of the log lines read, in input order, each followed by one line
\* feed (as text: exactly those bytes where they are well-formed UTF-8, and
\* without the ill-formed ones otherwise).
C18_NothingLostBeforeFinish ==
    LET held == Texts(logger.list) \o Pending
    IN  /\ held = DecodeIgnore(LogContents)
        /\ ~IllFormed(LogContents) => Utf8Encode(held) = LogContents
        /\ ~IsOpen => logger.tmp = << >>

\* Four log lines were read: two completed LogMessages and an open entry of
\* two lines hold their contents.
C18_Witness ==
    /\ nread = 4 /\ Len(LogPositions) = 4
    /\ Len(logger.list) = 2 /\ IsOpen
    /\ LineFeeds(logger.tmp) = 2
    /\ Texts(logger.list) \o Pending = <<97, LF, 99, LF, 97, LF, 98, LF>>

(***************************************************************************)
(* C19: buffers that end with a line feed.                                 *)
(***************************************************************************)

\* The buffer ends with the line feed byte.
EndsWithLineFeed == data # << >> /\ data[Len(data)] = LF

\* How many of the spans hold position k.
Holders(spans, k) ==
    Cardinality({j \in 1..Len(spans) :
                    \E i \in 1..Len(spans[j]) : spans[j][i] = k})

\* C19: when parse_bytes returns for a buffer that ends with a line feed, no
\* entry is open, the last line read is the empty segment after that line
\* feed, and the logs of the result hold every log line of the buffer, each
\* in exactly one LogMessage, as its content and a line feed.
C19_FinalLineFeedFlushes ==
    (pc = "returned" /\ EndsWithLineFeed) =>
        /\ lines[Len(lines)] = << >>
        /\ ~IsOpen /\ logger.tmp = << >>
        /\ result.logs = logger.list
        /\ EntriesHoldLines
        /\ LET spans == EntrySpans
           IN  \A k \in 1..Len(lines) :
                    IsLog(lines[k]) => Holders(spans, k) = 1
        /\ Texts(result.logs)
                = DecodeIgnore(Terminated(Positions(Len(lines), IsLog), Content))

\* parse_bytes returned one LogMessage for a buffer of two log lines whose
\* last byte is the line feed after the second.
C19_Witness ==
    /\ pc = "returned" /\ EndsWithLineFeed
    /\ lines = << <<43, 32, 97>>, <<124, 32, 98>>, << >> >>
    /\ result.logs = <<LogMessage(0, <<97, LF, 98, LF>>)>>

(***************************************************************************)
(* C20: empty lines and the output buffer.                                 *)
(***************************************************************************)

\* The plain line is not empty.
PlainNonEmpty(line) == IsPlain(line) /\ line # << >>

\* C20: after the lines read so far the output buffer is empty or ends with a
\* line feed, does not begin with a line feed and has no two line feeds in a
\* row: it is the non-empty plain lines read, in order, each followed by one
\* line feed, the empty ones left out wherever they stand.
C20_NoEmptyLineInOutput ==
    LET out == logger.out
    IN  /\ out = << >> \/ out[Len(out)] = LF
        /\ out # << >> => out[1] # LF
        /\ \A i \in 1..(Len(out) - 1) : ~(out[i] = LF /\ out[i + 1] = LF)
        /\ out = Terminated(Positions(nread, PlainNonEmpty), Itself)

\* A buffer with an empty line before, between and after two plain lines was
\* read to its end: the output buffer holds the two lines only.
C20_Witness ==
    /\ nread = 4 /\ Len(lines) = 4
    /\ lines[1] = << >> /\ lines[2] = <<111, 195, 169>>
    /\ lines[3] = << >> /\ lines[4] = << >>
    /\ logger.out = <<111, 195, 169, LF>>

====
